---- MODULE Spec2Model ----
(***************************************************************************)
(* TokenTracker: the getTokenDetails pipeline and its CLI caller main, as  *)
(* written in the final revision of tracker.ts (src/unnamed/part_001).     *)
(*                                                                         *)
(* One request is followed from its entry point to its return.  Each await *)
(* of the async function is a step boundary: an action is the code that    *)
(* runs between two awaits, and the response of the awaited call is drawn  *)
(* from the small response sets below.                                     *)
(***************************************************************************)
EXTENDS Integers, Sequences, FiniteSets, TLC

(***************************************************************************)
(* Bounds of the model.                                                    *)
(***************************************************************************)
MaxDecimals == 1
MaxRaw == 2
\* the conversion on its own: raw amounts 0..MaxAmount, 0..MaxPlaces places
MaxAmount == 12
MaxPlaces == 18

(***************************************************************************)
(* JavaScript values.  Every value is a record tagged by t, so that values *)
(* of different JavaScript types can be compared.                          *)
(*   number : a finite decimal c * 10^x, c a digit sequence without        *)
(*            leading or trailing zeros (zero is c = <<0>>, x = 0); a      *)
(*            number stands for the double that prints as that decimal     *)
(*   double : the double nearest to the decimal `near`, when that double   *)
(*            does not print as `near` itself                              *)
(***************************************************************************)
Undefined == [t |-> "undefined"]
Null == [t |-> "null"]
NaN == [t |-> "NaN"]
Str(s) == [t |-> "string", s |-> s]
Num(c, x) == [t |-> "number", c |-> c, x |-> x]
BigInt(c) == [t |-> "bigint", c |-> c]
Rounded(c, x) == [t |-> "double", near |-> <<c, x>>]

Zero == Num(<<0>>, 0)

\* JavaScript truthiness (ToBoolean)
Truthy(v) ==
    CASE v.t = "undefined" -> FALSE
      [] v.t = "null" -> FALSE
      [] v.t = "NaN" -> FALSE
      [] v.t = "string" -> v.s # ""
      [] v.t = "number" -> v # Zero
      [] OTHER -> TRUE

\* a || b
OrElse(a, b) == IF Truthy(a) THEN a ELSE b

(***************************************************************************)
(* Digit sequences (most significant digit first).                         *)
(***************************************************************************)
RECURSIVE NatToDigits(_)
NatToDigits(n) == IF n < 10 THEN <<n>> ELSE Append(NatToDigits(n \div 10), n % 10)

RECURSIVE Zeros(_)
Zeros(n) == IF n <= 0 THEN <<>> ELSE <<0>> \o Zeros(n - 1)

RECURSIVE StripLeading(_)
StripLeading(c) ==
    IF Len(c) > 1 /\ Head(c) = 0 THEN StripLeading(Tail(c)) ELSE c

Front(c) == SubSeq(c, 1, Len(c) - 1)
Last(c) == c[Len(c)]

RECURSIVE TrailingZeros(_)
TrailingZeros(c) ==
    IF Len(c) > 1 /\ Last(c) = 0 THEN 1 + TrailingZeros(Front(c)) ELSE 0

\* c * k + carry, for a digit sequence c and small naturals k, carry
RECURSIVE MulSmall(_, _, _)
MulSmall(c, k, carry) ==
    IF c = <<>>
    THEN IF carry = 0 THEN <<>> ELSE NatToDigits(carry)
    ELSE LET p == Last(c) * k + carry
         IN  Append(MulSmall(Front(c), k, p \div 10), p % 10)

RECURSIVE AddDigits(_, _, _)
AddDigits(a, b, carry) ==
    IF a = <<>> /\ b = <<>>
    THEN IF carry = 0 THEN <<>> ELSE <<carry>>
    ELSE LET da == IF a = <<>> THEN 0 ELSE Last(a)
             db == IF b = <<>> THEN 0 ELSE Last(b)
             ra == IF a = <<>> THEN <<>> ELSE Front(a)
             rb == IF b = <<>> THEN <<>> ELSE Front(b)
             s == da + db + carry
         IN  Append(AddDigits(ra, rb, s \div 10), s % 10)

RECURSIVE MulDigits(_, _)
MulDigits(a, b) ==
    IF b = <<>> THEN <<0>>
    ELSE StripLeading(AddDigits(Append(MulDigits(a, Front(b)), 0),
                                MulSmall(a, Last(b), 0), 0))

(***************************************************************************)
(* bignumber.js values: NaN, or the exact decimal c * 10^x (normal form as *)
(* for numbers).                                                           *)
(***************************************************************************)
BigNaN == [nan |-> TRUE]
Big(c, x) == [nan |-> FALSE, c |-> c, x |-> x]

Normalize(c, x) ==
    LET d == StripLeading(c)
        z == TrailingZeros(d)
    IN  IF d = <<0>> THEN Big(<<0>>, 0)
        ELSE Big(SubSeq(d, 1, Len(d) - z), x + z)

\* the text of the numeric strings the model uses, as a decimal
NumericText(s) ==
    CASE s = "2.5" -> Big(<<2, 5>>, -1)
      [] OTHER -> BigNaN

\* amount.toString() of a bigint or number
toString(v) ==
    CASE v.t = "bigint" -> [t |-> "digits", c |-> v.c, x |-> 0]
      [] v.t = "number" -> [t |-> "digits", c |-> v.c, x |-> v.x]
      [] v.t = "string" -> v
      [] OTHER -> Str(v.t)

\* new BigNumber(v)
BigNumber(v) ==
    CASE v.t = "digits" -> Normalize(v.c, v.x)
      [] v.t = "number" -> Normalize(v.c, v.x)
      [] v.t = "bigint" -> Normalize(v.c, 0)
      [] v.t = "string" -> NumericText(v.s)
      [] OTHER -> BigNaN

\* b.shiftedBy(k): b * 10^k, exact
shiftedBy(b, k) ==
    IF b.nan THEN BigNaN
    ELSE IF b.c = <<0>> THEN b ELSE Big(b.c, b.x + k)

\* b.multipliedBy(v): exact product
multipliedBy(b, v) ==
    LET m == BigNumber(v)
    IN  IF b.nan \/ m.nan THEN BigNaN
        ELSE Normalize(MulDigits(b.c, m.c), b.x + m.x)

(***************************************************************************)
(* b.toNumber(): the double nearest to b.  A decimal of at most            *)
(* DBL_DIG = 15 significant digits survives the conversion (the double     *)
(* prints as that decimal); one of more than DBL_DECIMAL_DIG = 17          *)
(* significant digits never does; in between either may happen.  The       *)
(* operator yields the set of possible results.                            *)
(***************************************************************************)
DBL_DIG == 15
DBL_DECIMAL_DIG == 17

toNumber(b) ==
    IF b.nan THEN {NaN}
    ELSE IF Len(b.c) <= DBL_DIG THEN {Num(b.c, b.x)}
    ELSE IF Len(b.c) > DBL_DECIMAL_DIG THEN {Rounded(b.c, b.x)}
    ELSE {Num(b.c, b.x), Rounded(b.c, b.x)}

(***************************************************************************)
(* b.toFormat(): fixed-point notation, integer part in groups of three     *)
(* separated by ",", fraction after ".", as a sequence of characters.      *)
(***************************************************************************)
DigitChar(d) == <<"0", "1", "2", "3", "4", "5", "6", "7", "8", "9">>[d + 1]

IntegerPart(b) ==
    IF b.x >= 0 THEN b.c \o Zeros(b.x)
    ELSE IF Len(b.c) > -b.x THEN SubSeq(b.c, 1, Len(b.c) + b.x)
    ELSE <<0>>

FractionPart(b) ==
    IF b.x >= 0 THEN <<>>
    ELSE IF Len(b.c) > -b.x THEN SubSeq(b.c, Len(b.c) + b.x + 1, Len(b.c))
    ELSE Zeros(-b.x - Len(b.c)) \o b.c

RECURSIVE Grouped(_)
Grouped(ds) ==
    IF Len(ds) <= 3 THEN [i \in 1..Len(ds) |-> DigitChar(ds[i])]
    ELSE Grouped(SubSeq(ds, 1, Len(ds) - 3)) \o <<",">>
         \o [i \in 1..3 |-> DigitChar(ds[Len(ds) - 3 + i])]

\* a bug: toFixed() in place of toFormat(), no grouping
toFixedText(b) ==
    IF b.nan THEN <<"N", "a", "N">>
    ELSE LET f == FractionPart(b)
         IN  [i \in 1..Len(IntegerPart(b)) |-> DigitChar(IntegerPart(b)[i])]
             \o (IF f = <<>> THEN <<>>
                 ELSE <<".">> \o [i \in 1..Len(f) |-> DigitChar(f[i])])

toFormat(b) ==
    IF b.nan THEN <<"N", "a", "N">>
    ELSE LET f == FractionPart(b)
         IN  Grouped(IntegerPart(b))
             \o (IF f = <<>> THEN <<>>
                 ELSE <<".">> \o [i \in 1..Len(f) |-> DigitChar(f[i])])

\* a bug: the amount is scaled up instead of down
convertShiftedUp(raw, dec) ==
    shiftedBy(BigNumber(toString(raw)), dec)

\* ---Helper Functions for BigNumber Conversion---
convertToDecimal(raw, dec) ==
    shiftedBy(BigNumber(toString(raw)), -dec)


(***************************************************************************)
(* The inputs of a request and the responses of the external services.     *)
(***************************************************************************)
\* process.argv[2] / the argument of getTokenDetails: missing, malformed,
\* well formed
Addresses == {"", "not-base58!", "MintA", "MintB"}
WellFormedAddresses == {"MintA", "MintB"}

CallNames == {"getMint", "findByMint", "axiosJson", "axiosPrice", "axiosOverview"}

NotCalled == [st |-> "none"]
Rejected == [st |-> "rejected"]
Fulfilled(d) == [st |-> "fulfilled", data |-> d]
\* the service holds the connection and never answers
Never == [st |-> "never"]

Obj(fields) == [t |-> "object", f |-> fields]

\* body?.field and body.field of a response body
Opt(body, field) == IF body.t = "object" THEN body.f[field] ELSE Undefined
FieldThrows(body) == body.t \in {"undefined", "null"}

\* getMint: the mint account (decimals: u8, supply: u64)
Mint(d, c, auth) ==
    [decimals |-> d, supply |-> BigInt(c), mintAuthority |-> auth,
     freezeAuthority |-> Null]

MintInfos ==
    {Mint(6, <<1>> \o Zeros(12), Str("Auth")),
     Mint(9, <<1, 2, 3, 4, 5, 6, 7, 8, 9, 0, 1, 2, 3, 4, 5, 6, 7, 8>>, Null)}
    \cup {Mint(d, NatToDigits(n), Null) : d \in 0..MaxDecimals, n \in 0..MaxRaw}

\* the answers offered when two invocations run side by side: one or two of
\* each kind, different enough to tell the invocations apart
PairResponses ==
    {Mint(6, <<1>> \o Zeros(12), Str("Auth")),
     Mint(0, <<2>>, Null),
     [name |-> Str("OnName"), symbol |-> Str(""), uri |-> Str("https://meta")],
     [name |-> Str(""), symbol |-> Str("ONS"), uri |-> Str("")],
     Obj([image |-> Str("https://img"), name |-> Str("OffName"),
          symbol |-> Str("OFF")]),
     Obj([value |-> Num(<<2, 5>>, -1)]),
     Obj([liquidity |-> Num(<<5>>, 0), holders |-> Num(<<7>>, 0),
          volume24h |-> Num(<<9>>, 0)])}

\* metaplex.nfts().findByMint: the on-chain metadata record
OnChainRecords ==
    {[name |-> Str(n), symbol |-> Str(s), uri |-> Str(u)] :
        n \in {"", "OnName"}, s \in {"", "ONS"}, u \in {"", "https://meta"}}

\* axios.get(metadataUri): response.data is null (a body of null), a string
\* (a body that is no JSON) or the parsed document
JsonBodies ==
    {Null, Str("<html>")}
    \cup {Obj([image |-> i, name |-> n, symbol |-> s]) :
            i \in {Undefined, Str("https://img")},
            n \in {Undefined, Str("OffName")},
            s \in {Undefined, Str("OFF")}}

\* the price endpoint: no nested data, or data.value absent, 0, 2.5 or a
\* text that is no number
PriceBodies ==
    {Undefined}
    \cup {Obj([value |-> v]) :
            v \in {Undefined, Zero, Num(<<2, 5>>, -1), Str("abc")}}

\* the overview endpoint: no nested data, or any subset of the fields
OverviewBodies ==
    {Undefined}
    \cup {Obj([liquidity |-> l, holders |-> h, volume24h |-> v]) :
            l \in {Undefined, Zero, Num(<<5>>, 0)},
            h \in {Undefined, Num(<<7>>, 0)},
            v \in {Undefined, Num(<<9>>, 0)}}

(***************************************************************************)
(* The state of one request.                                               *)
(***************************************************************************)
VARIABLES
    entry,                \* "main": the CLI; "direct": getTokenDetails called
    address,              \* tokenAddress / mintAddress
    pc,                   \* where the request stands
    calls,                \* the external calls issued so far, in order
    resp,                 \* the response each external call got
    mintInfo, decimals, totalSupplyRaw, totalSupplyFormatted,
    tokenName, tokenSymbol, tokenImageURL,
    price, marketCap, liquidityUsd, holders, volume24h,
    result,               \* what getTokenDetails returned
    exitCode, output,     \* process.exit code and what main printed
    parked,               \* the frame of a second invocation of
                          \* getTokenDetails, suspended at an await
    amount, places,       \* the arguments of a call of convertToDecimal
    converted             \* and what it returned

vars == <<entry, address, pc, calls, resp, mintInfo, decimals, totalSupplyRaw,
          totalSupplyFormatted, tokenName, tokenSymbol, tokenImageURL, price,
          marketCap, liquidityUsd, holders, volume24h, result, exitCode,
          output, parked, amount, places, converted>>

\* the state outside the request at hand
other == <<parked, amount, places, converted>>

chain == <<mintInfo, decimals, totalSupplyRaw, totalSupplyFormatted>>
meta == <<tokenName, tokenSymbol, tokenImageURL>>
market == <<price, marketCap, liquidityUsd, holders, volume24h>>
cli == <<entry, address, exitCode, output>>

Pending == [t |-> "pending"]
Uncaught == [t |-> "exception"]

\* no second invocation, no conversion on its own
NoOther == [t |-> "none"]
Alone == parked = NoOther
NoConversion == amount = Undefined /\ places = Undefined /\ converted = Undefined

\* the answers a service may give: any of S for a request on its own, those
\* of PairResponses when two run side by side
Offered(S) == IF Alone THEN S ELSE S \cap PairResponses

Init ==
    /\ Alone /\ NoConversion
    /\ entry \in {"main", "direct"}
    /\ address \in Addresses
    /\ pc = (IF entry = "main" THEN "main" ELSE "getTokenDetails")
    /\ calls = <<>>
    /\ resp = [c \in CallNames |-> NotCalled]
    /\ mintInfo = Undefined /\ decimals = Undefined
    /\ totalSupplyRaw = Undefined /\ totalSupplyFormatted = Undefined
    /\ tokenName = Undefined /\ tokenSymbol = Undefined
    /\ tokenImageURL = Undefined
    /\ price = Undefined /\ marketCap = Undefined /\ liquidityUsd = Undefined
    /\ holders = Undefined /\ volume24h = Undefined
    /\ result = Pending
    /\ exitCode = Undefined
    /\ output = "none"


(***************************************************************************)
(* Exceptions.  PublicKeyThrows: new PublicKey(address) throws on a string *)
(* that is no well-formed address.  Handler(stage) is the catch block that *)
(* encloses the code of a stage, following the nesting of the try blocks   *)
(* of getTokenDetails.                                                     *)
(***************************************************************************)
\* a bug: the address is never validated
PublicKeyNeverThrows(addr) == FALSE

PublicKeyThrows(addr) == addr \notin WellFormedAddresses

\* a bug: no inner try blocks, every failure reaches the outer catch
HandlerOuterOnly(stage) == "outer"

\* a bug: the key is built before the outer try block is entered
HandlerKeyOutsideTry(stage) ==
    CASE stage = "PublicKey" -> "uncaught"
      [] stage = "getMint" -> "outer"
      [] stage = "findByMint" -> "metaError"
      [] stage = "axiosJson" -> "jsonError"
      [] stage = "axiosPrice" -> "priceApiError"
      [] stage = "axiosOverview" -> "overviewApiError"

\* a bug: the price call has no try block of its own; its failure is caught
\* by the try block around the whole market stage (lines 108-152)
HandlerNoPriceTry(stage) ==
    CASE stage = "PublicKey" -> "outer"
      [] stage = "getMint" -> "outer"
      [] stage = "findByMint" -> "metaError"
      [] stage = "axiosJson" -> "jsonError"
      [] stage = "axiosPrice" -> "apiError"
      [] stage = "axiosOverview" -> "overviewApiError"

Handler(stage) ==
    CASE stage = "PublicKey" -> "outer"
      [] stage = "getMint" -> "outer"
      [] stage = "findByMint" -> "metaError"
      [] stage = "axiosJson" -> "jsonError"
      [] stage = "axiosPrice" -> "priceApiError"
      [] stage = "axiosOverview" -> "overviewApiError"

\* a bug: the outer catch returns a partial record
OuterCatchPartial == [t |-> "TokenDetails"]

\* catch (error) {...; return null}
OuterCatchReturn == Null

\* the formatted total supply, a text
Text(chars) == [t |-> "text", chars |-> chars]

(***************************************************************************)
(* The statements of getTokenDetails between its awaits.                   *)
(***************************************************************************)
\* return v (or an exception leaving the function)
Return(v) ==
    /\ result' = v
    /\ pc' = "returned"
    /\ UNCHANGED <<calls, chain, meta, market, cli>>

\* an exception of a stage whose handler is not one of the inner catch blocks
Escalate(h) ==
    IF h = "outer" THEN Return(OuterCatchReturn) ELSE Return(Uncaught)

\* a bug: a call is attempted a second time
IssueWithRetry(call) ==
    /\ calls' = calls \o <<call, call>>
    /\ pc' = call

\* an external call is issued and awaited
Issue(call) ==
    /\ calls' = Append(calls, call)
    /\ pc' = call

\* lines 101-116: the market variables are declared unset and the price
\* call is issued; name, symbol, image are what the metadata stage left
StartMarket(name, symbol, image) ==
    /\ tokenName' = name /\ tokenSymbol' = symbol /\ tokenImageURL' = image
    /\ price' = Undefined /\ marketCap' = Undefined
    /\ liquidityUsd' = Undefined /\ holders' = Undefined
    /\ volume24h' = Undefined
    /\ Issue("axiosPrice")
    /\ UNCHANGED <<chain, result, cli>>

\* a bug: the off-chain document is fetched whatever the pointer URI
AlwaysFetchJson(uri) == TRUE

\* line 74: if (metadataUri)
ShouldFetchJson(uri) == Truthy(uri)

\* a bug: name and symbol are taken from each other's field
AssignFromChainSwapped(nft) ==
    [tokenName |-> nft.symbol, tokenSymbol |-> nft.name, metadataUri |-> nft.uri]

\* lines 69-71: the on-chain name, symbol and pointer URI
AssignFromChain(nft) ==
    [tokenName |-> nft.name, tokenSymbol |-> nft.symbol, metadataUri |-> nft.uri]

\* a bug: the off-chain value overwrites the on-chain one
OffChainOverwrite(current, offchain) ==
    IF Truthy(offchain) THEN offchain ELSE current

\* lines 82-83: if (!current && offchain) current = offchain
OffChainFill(current, offchain) ==
    IF ~Truthy(current) /\ Truthy(offchain) THEN offchain ELSE current

\* lines 117-122: the price taken from the response
PriceOf(body) ==
    IF Truthy(Opt(body, "value")) THEN Opt(body, "value") ELSE Undefined

\* a bug: the market cap is computed without the guard on the price
MarketCapUnguarded(p, raw, dec) ==
    toNumber(multipliedBy(convertToDecimal(raw, dec), p))

\* lines 128-131: the market capitalisation; the set of values toNumber may
\* yield
MarketCapOf(p, raw, dec) ==
    IF p # Undefined
    THEN toNumber(multipliedBy(convertToDecimal(raw, dec), p))
    ELSE {Undefined}

\* a bug: a missing overview field defaults to zero
OverviewFieldOrZero(body, field) ==
    IF Opt(body, field) = Undefined THEN Zero ELSE Opt(body, field)

\* lines 140-142: overviewResponse.data?.data?.field
OverviewField(body, field) == Opt(body, field)

\* lines 126-138: the price is settled, the market cap is derived and the
\* overview call is issued
AfterPrice(p) ==
    /\ price' = p
    /\ \E m \in MarketCapOf(p, totalSupplyRaw, decimals) : marketCap' = m
    /\ Issue("axiosOverview")
    /\ UNCHANGED <<chain, meta, liquidityUsd, holders, volume24h, result, cli>>

\* a bug: the name is returned as the metadata stage left it
NameAsIs(name) == name

\* lines 157-158: tokenName || "N?A", tokenSymbol || "N/A"
NameOrDefault(name) == OrElse(name, Str("N?A"))
SymbolOrDefault(symbol) == OrElse(symbol, Str("N/A"))

\* lines 163-164: authority?.toBase58() || null
AuthorityOrNull(a) == OrElse(a, Null)

\* lines 155-170: the TokenDetails record
TokenDetails(liq, hold, vol) ==
    [t |-> "TokenDetails",
     address |-> address,
     name |-> NameOrDefault(tokenName),
     symbol |-> SymbolOrDefault(tokenSymbol),
     imageURL |-> tokenImageURL,
     decimals |-> decimals,
     totalSupply |-> totalSupplyFormatted,
     totalSupplyRaw |-> totalSupplyRaw,
     mintAuthority |-> AuthorityOrNull(mintInfo.mintAuthority),
     freezeAuthority |-> AuthorityOrNull(mintInfo.freezeAuthority),
     price |-> price,
     marketcCap |-> marketCap,
     liquidityUsd |-> liq,
     holders |-> hold,
     volume24h |-> vol]

\* lines 154-172: the overview fields are settled, the record is built and
\* returned
Construct(liq, hold, vol) ==
    /\ liquidityUsd' = liq /\ holders' = hold /\ volume24h' = vol
    /\ result' = TokenDetails(liq, hold, vol)
    /\ pc' = "returned"
    /\ UNCHANGED <<calls, chain, meta, price, marketCap, cli>>

(***************************************************************************)
(* The actions.                                                            *)
(***************************************************************************)
\* main, lines 181-194: the argument is checked, then getTokenDetails is
\* called
MainExit ==
    /\ UNCHANGED other
    /\ pc = "main"
    /\ ~Truthy(Str(address)) \/ PublicKeyThrows(address)
    /\ exitCode' = Num(<<1>>, 0)
    /\ output' = (IF ~Truthy(Str(address)) THEN "usage" ELSE "invalid format")
    /\ pc' = "exited"
    /\ UNCHANGED <<entry, address, calls, resp, chain, meta, market, result>>

MainCall ==
    /\ UNCHANGED other
    /\ pc = "main"
    /\ Truthy(Str(address)) /\ ~PublicKeyThrows(address)
    /\ pc' = "getTokenDetails"
    /\ UNCHANGED <<cli, calls, resp, chain, meta, market, result>>

\* main, lines 195-204: the report
MainReport ==
    /\ UNCHANGED other
    /\ pc = "returned" /\ entry = "main" /\ output = "none"
    /\ result # Uncaught
    /\ output' = (IF Truthy(result) THEN "details" ELSE "no details")
    /\ UNCHANGED <<entry, address, exitCode, pc, calls, resp, chain, meta,
                   market, result>>

\* getTokenDetails, lines 42-48: the key is built and the mint lookup issued
GetTokenDetails ==
    /\ UNCHANGED other
    /\ pc = "getTokenDetails"
    /\ IF PublicKeyThrows(address)
       THEN Escalate(Handler("PublicKey"))
       ELSE /\ Issue("getMint")
            /\ UNCHANGED <<chain, meta, market, result, cli>>
    /\ UNCHANGED resp

\* line 48 rejects
GetMintFails ==
    /\ UNCHANGED other
    /\ pc = "getMint"
    /\ resp["getMint"] = NotCalled
    /\ resp' = [resp EXCEPT !["getMint"] = Rejected]
    /\ Escalate(Handler("getMint"))

\* lines 48-66: the mint lookup answers; the supply is formatted, the
\* metadata variables are declared unset and the metadata lookup is issued
GetMintReturns ==
    /\ UNCHANGED other
    /\ pc = "getMint"
    /\ resp["getMint"] = NotCalled
    /\ \E m \in Offered(MintInfos) :
        /\ resp' = [resp EXCEPT !["getMint"] = Fulfilled(m)]
        /\ mintInfo' = m
        /\ decimals' = m.decimals
        /\ totalSupplyRaw' = m.supply
        /\ totalSupplyFormatted' =
               Text(toFormat(convertToDecimal(m.supply, m.decimals)))
    /\ tokenName' = Undefined /\ tokenSymbol' = Undefined
    /\ tokenImageURL' = Undefined
    /\ Issue("findByMint")
    /\ UNCHANGED <<market, result, cli>>

\* line 66 rejects
FindByMintFails ==
    /\ UNCHANGED other
    /\ pc = "findByMint"
    /\ resp["findByMint"] = NotCalled
    /\ resp' = [resp EXCEPT !["findByMint"] = Rejected]
    /\ IF Handler("findByMint") = "metaError"
       THEN StartMarket(tokenName, tokenSymbol, tokenImageURL)
       ELSE Escalate(Handler("findByMint"))

\* lines 66-77: the metadata record answers; with a pointer URI the
\* off-chain document is fetched, else the market stage starts
FindByMintReturns ==
    /\ UNCHANGED other
    /\ pc = "findByMint"
    /\ resp["findByMint"] = NotCalled
    /\ \E nft \in Offered(OnChainRecords) :
        LET got == AssignFromChain(nft)
        IN  /\ resp' = [resp EXCEPT !["findByMint"] = Fulfilled(nft)]
            /\ IF ShouldFetchJson(got.metadataUri)
               THEN /\ tokenName' = got.tokenName
                    /\ tokenSymbol' = got.tokenSymbol
                    /\ Issue("axiosJson")
                    /\ UNCHANGED <<tokenImageURL, chain, market, result, cli>>
               ELSE StartMarket(got.tokenName, got.tokenSymbol, tokenImageURL)

\* line 77 rejects, or line 78 reads a field of a null body
AxiosJsonFails ==
    /\ UNCHANGED other
    /\ pc = "axiosJson"
    /\ resp["axiosJson"] = NotCalled
    /\ \E r \in {Rejected, Fulfilled(Null)} :
        resp' = [resp EXCEPT !["axiosJson"] = r]
    /\ IF Handler("axiosJson") \in {"jsonError", "metaError"}
       THEN StartMarket(tokenName, tokenSymbol, tokenImageURL)
       ELSE Escalate(Handler("axiosJson"))

\* lines 77-83: the off-chain document answers
AxiosJsonReturns ==
    /\ UNCHANGED other
    /\ pc = "axiosJson"
    /\ resp["axiosJson"] = NotCalled
    /\ \E body \in Offered(JsonBodies) :
        /\ ~FieldThrows(body)
        /\ resp' = [resp EXCEPT !["axiosJson"] = Fulfilled(body)]
        /\ StartMarket(OffChainFill(tokenName, Opt(body, "name")),
                       OffChainFill(tokenSymbol, Opt(body, "symbol")),
                       Opt(body, "image"))

\* line 116 rejects
AxiosPriceFails ==
    /\ UNCHANGED other
    /\ pc = "axiosPrice"
    /\ resp["axiosPrice"] = NotCalled
    /\ resp' = [resp EXCEPT !["axiosPrice"] = Rejected]
    /\ IF Handler("axiosPrice") = "priceApiError"
       THEN AfterPrice(price)
       ELSE IF Handler("axiosPrice") = "apiError"
       THEN Construct(liquidityUsd, holders, volume24h)
       ELSE Escalate(Handler("axiosPrice"))

\* lines 116-122: the price endpoint answers
AxiosPriceReturns ==
    /\ UNCHANGED other
    /\ pc = "axiosPrice"
    /\ resp["axiosPrice"] = NotCalled
    /\ \E body \in Offered(PriceBodies) :
        /\ resp' = [resp EXCEPT !["axiosPrice"] = Fulfilled(body)]
        /\ AfterPrice(PriceOf(body))

\* line 138 rejects
AxiosOverviewFails ==
    /\ UNCHANGED other
    /\ pc = "axiosOverview"
    /\ resp["axiosOverview"] = NotCalled
    /\ resp' = [resp EXCEPT !["axiosOverview"] = Rejected]
    /\ IF Handler("axiosOverview") \in {"overviewApiError", "apiError"}
       THEN Construct(liquidityUsd, holders, volume24h)
       ELSE Escalate(Handler("axiosOverview"))

\* lines 138-143: the overview endpoint answers
AxiosOverviewReturns ==
    /\ UNCHANGED other
    /\ pc = "axiosOverview"
    /\ resp["axiosOverview"] = NotCalled
    /\ \E body \in Offered(OverviewBodies) :
        /\ resp' = [resp EXCEPT !["axiosOverview"] = Fulfilled(body)]
        /\ Construct(OverviewField(body, "liquidity"),
                     OverviewField(body, "holders"),
                     OverviewField(body, "volume24h"))

\* an awaited call is never answered: getMint, findByMint and axios.get are
\* called without a timeout (lines 48, 66, 77, 116, 138), so the await
\* stays pending
NeverAnswers ==
    /\ UNCHANGED other
    /\ pc \in CallNames
    /\ resp[pc] = NotCalled
    /\ resp' = [resp EXCEPT ![pc] = Never]
    /\ UNCHANGED <<pc, calls, chain, meta, market, result, cli>>

Next ==
    \/ NeverAnswers
    \/ MainExit
    \/ MainCall
    \/ MainReport
    \/ GetTokenDetails
    \/ GetMintFails
    \/ GetMintReturns
    \/ FindByMintFails
    \/ FindByMintReturns
    \/ AxiosJsonFails
    \/ AxiosJsonReturns
    \/ AxiosPriceFails
    \/ AxiosPriceReturns
    \/ AxiosOverviewFails
    \/ AxiosOverviewReturns

Spec == Init /\ [][Next]_vars

(***************************************************************************)
(* Two invocations of getTokenDetails in one process.  JavaScript runs one *)
(* of them at a time and hands over only at an await, which is where every *)
(* action above ends: the variables above are the activation that runs,    *)
(* `parked' is the activation that waits, and Switch hands over.           *)
(***************************************************************************)
\* the activation that runs
CurrentFrame ==
    [entry |-> entry, address |-> address, pc |-> pc, calls |-> calls,
     resp |-> resp, mintInfo |-> mintInfo, decimals |-> decimals,
     totalSupplyRaw |-> totalSupplyRaw,
     totalSupplyFormatted |-> totalSupplyFormatted,
     tokenName |-> tokenName, tokenSymbol |-> tokenSymbol,
     tokenImageURL |-> tokenImageURL, price |-> price,
     marketCap |-> marketCap, liquidityUsd |-> liquidityUsd,
     holders |-> holders, volume24h |-> volume24h, result |-> result,
     exitCode |-> exitCode, output |-> output]

\* an activation of getTokenDetails(addr) that has not run yet
FreshFrame(addr) ==
    [entry |-> "direct", address |-> addr, pc |-> "getTokenDetails",
     calls |-> <<>>, resp |-> [c \in CallNames |-> NotCalled],
     mintInfo |-> Undefined, decimals |-> Undefined,
     totalSupplyRaw |-> Undefined, totalSupplyFormatted |-> Undefined,
     tokenName |-> Undefined, tokenSymbol |-> Undefined,
     tokenImageURL |-> Undefined, price |-> Undefined,
     marketCap |-> Undefined, liquidityUsd |-> Undefined,
     holders |-> Undefined, volume24h |-> Undefined, result |-> Pending,
     exitCode |-> Undefined, output |-> "none"]

\* a bug: tokenName, tokenSymbol and tokenImageURL declared at module level,
\* next to connection and metaplex: the activation that resumes finds what
\* the other one left in them
ActivationSharingMeta(saved, live) ==
    [saved EXCEPT !.tokenName = live.tokenName,
                  !.tokenSymbol = live.tokenSymbol,
                  !.tokenImageURL = live.tokenImageURL]

\* lines 41-61, 101-105: the parameter and every let/const are local to the
\* invocation, so the activation that resumes finds what it left
Activation(saved, live) == saved

Switch ==
    /\ ~Alone
    /\ parked' = CurrentFrame
    /\ LET f == Activation(parked, CurrentFrame)
       IN  /\ entry' = f.entry /\ address' = f.address /\ pc' = f.pc
           /\ calls' = f.calls /\ resp' = f.resp
           /\ mintInfo' = f.mintInfo /\ decimals' = f.decimals
           /\ totalSupplyRaw' = f.totalSupplyRaw
           /\ totalSupplyFormatted' = f.totalSupplyFormatted
           /\ tokenName' = f.tokenName /\ tokenSymbol' = f.tokenSymbol
           /\ tokenImageURL' = f.tokenImageURL
           /\ price' = f.price /\ marketCap' = f.marketCap
           /\ liquidityUsd' = f.liquidityUsd /\ holders' = f.holders
           /\ volume24h' = f.volume24h /\ result' = f.result
           /\ exitCode' = f.exitCode /\ output' = f.output
    /\ UNCHANGED <<amount, places, converted>>

InitPair ==
    /\ NoConversion
    /\ \E a \in WellFormedAddresses, b \in WellFormedAddresses :
          LET f == FreshFrame(a)
          IN  /\ a # b
              /\ parked = FreshFrame(b)
              /\ entry = f.entry /\ address = f.address /\ pc = f.pc
              /\ calls = f.calls /\ resp = f.resp
              /\ mintInfo = f.mintInfo /\ decimals = f.decimals
              /\ totalSupplyRaw = f.totalSupplyRaw
              /\ totalSupplyFormatted = f.totalSupplyFormatted
              /\ tokenName = f.tokenName /\ tokenSymbol = f.tokenSymbol
              /\ tokenImageURL = f.tokenImageURL
              /\ price = f.price /\ marketCap = f.marketCap
              /\ liquidityUsd = f.liquidityUsd /\ holders = f.holders
              /\ volume24h = f.volume24h /\ result = f.result
              /\ exitCode = f.exitCode /\ output = f.output

NextPair ==
    \/ GetTokenDetails
    \/ GetMintFails
    \/ GetMintReturns
    \/ FindByMintFails
    \/ FindByMintReturns
    \/ AxiosJsonFails
    \/ AxiosJsonReturns
    \/ AxiosPriceFails
    \/ AxiosPriceReturns
    \/ AxiosOverviewFails
    \/ AxiosOverviewReturns
    \/ NeverAnswers
    \/ Switch

SpecPair == InitPair /\ [][NextPair]_vars

(***************************************************************************)
(* convertToDecimal on its own: a call with arguments drawn from the raw   *)
(* amounts and decimal-place counts below.                                 *)
(***************************************************************************)
RawAmounts ==
    {NatToDigits(n) : n \in 0..MaxAmount}
    \cup {<<1>> \o Zeros(12),
          <<1, 2, 3, 4, 5, 6, 7, 8, 9, 0, 1, 2, 3, 4, 5, 6, 7, 8>>,
          <<1, 8, 4, 4, 6, 7, 4, 4, 0, 7, 3, 7, 0, 9, 5, 5, 1, 6, 1, 5>>}

\* no request is running
NoRequest ==
    /\ entry = "none" /\ address = "" /\ pc = "idle"
    /\ calls = <<>>
    /\ resp = [c \in CallNames |-> NotCalled]
    /\ mintInfo = Undefined /\ decimals = Undefined
    /\ totalSupplyRaw = Undefined /\ totalSupplyFormatted = Undefined
    /\ tokenName = Undefined /\ tokenSymbol = Undefined
    /\ tokenImageURL = Undefined
    /\ price = Undefined /\ marketCap = Undefined /\ liquidityUsd = Undefined
    /\ holders = Undefined /\ volume24h = Undefined
    /\ result = Pending
    /\ exitCode = Undefined
    /\ output = "none"

InitConvert ==
    /\ NoRequest /\ Alone
    /\ amount \in {BigInt(c) : c \in RawAmounts}
    /\ places \in 0..MaxPlaces
    /\ converted = Undefined

\* lines 19-21
Convert ==
    /\ converted = Undefined
    /\ converted' = convertToDecimal(amount, places)
    /\ UNCHANGED <<entry, address, pc, calls, resp, chain, meta, market,
                   result, exitCode, output, parked, amount, places>>

NextConvert == Convert

SpecConvert == InitConvert /\ [][NextConvert]_vars


(***************************************************************************)
(* The properties.                                                         *)
(***************************************************************************)
Returned == pc = "returned"
IsRecord == result.t = "TokenDetails"
MintOk == resp["getMint"].st = "fulfilled"
MetaOk == resp["findByMint"].st = "fulfilled"
Malformed == address \notin WellFormedAddresses

\* the off-chain fetch failed: network error, a null body, or a body that
\* is no JSON document
JsonFailed ==
    resp["axiosJson"] \in {Rejected, Fulfilled(Null), Fulfilled(Str("<html>"))}

\* C1: if the mint lookup fails, getTokenDetails returns null: it has
\* returned, what it returned is null and not a record, and no other source
\* was consulted.
C1_MintFailureReturnsNull ==
    resp["getMint"] = Rejected =>
        /\ Returned
        /\ result = Null
        /\ calls = <<"getMint">>

C1_Witness == resp["getMint"] = Rejected /\ Returned /\ result = Null

\* C2: once the mint lookup has succeeded, no failure of the metadata
\* lookup, the off-chain fetch, the price call or the overview call makes
\* getTokenDetails return null or throw: when it returns, it returns a record.
C2_RecordDespiteFailures ==
    MintOk =>
        /\ result \in {Pending} \/ IsRecord
        /\ Returned => IsRecord

C2_Witness ==
    /\ Returned /\ IsRecord
    /\ resp["axiosJson"] = Rejected
    /\ resp["axiosPrice"] = Rejected
    /\ resp["axiosOverview"] = Rejected

C2_WitnessMetaFails ==
    /\ Returned /\ IsRecord
    /\ resp["findByMint"] = Rejected
    /\ resp["axiosPrice"] = Rejected
    /\ resp["axiosOverview"] = Rejected

\* the chain fields of the record are those of the mint lookup
ChainFieldsFromMint ==
    LET m == resp["getMint"].data
    IN  /\ result.decimals = m.decimals
        /\ result.totalSupplyRaw = m.supply
        /\ result.totalSupply = Text(toFormat(convertToDecimal(m.supply, m.decimals)))

\* C3 as stated: if the metadata lookup fails while the mint lookup
\* succeeds, the record has empty (unset) name, symbol and image and the
\* decimals and supply of the mint lookup.
C3_Original ==
    (Returned /\ MintOk /\ resp["findByMint"] = Rejected) =>
        /\ IsRecord
        /\ result.name \in {Undefined, Str("")}
        /\ result.symbol \in {Undefined, Str("")}
        /\ result.imageURL = Undefined
        /\ ChainFieldsFromMint

\* C3 amended: if the metadata lookup fails while the mint lookup succeeds,
\* the record has the fallback markers as name ("N?A") and symbol ("N/A"),
\* an unset image, and the decimals and supply of the mint lookup.
C3_MetaFailureGivesMarkers ==
    (Returned /\ MintOk /\ resp["findByMint"] = Rejected) =>
        /\ IsRecord
        /\ result.name = Str("N?A")
        /\ result.symbol = Str("N/A")
        /\ result.imageURL = Undefined
        /\ ChainFieldsFromMint

C3_Witness ==
    /\ Returned /\ IsRecord /\ resp["findByMint"] = Rejected
    /\ result.decimals = 6
    /\ result.totalSupplyRaw = BigInt(<<1>> \o Zeros(12))

\* C4 as stated: if the on-chain lookup succeeded and the off-chain fetch
\* fails, the record carries the on-chain name and symbol unchanged and no
\* image.
C4_Original ==
    (Returned /\ MetaOk /\ JsonFailed) =>
        /\ IsRecord
        /\ result.name = resp["findByMint"].data.name
        /\ result.symbol = resp["findByMint"].data.symbol
        /\ result.imageURL = Undefined

\* C4 amended: if the on-chain lookup succeeded and the off-chain fetch
\* fails, the record carries each non-empty on-chain name and symbol
\* unchanged, the fallback marker in place of an empty one, and no image.
C4_JsonFailureKeepsOnChain ==
    (Returned /\ MetaOk /\ JsonFailed) =>
        LET nft == resp["findByMint"].data
        IN  /\ IsRecord
            /\ result.name = (IF nft.name # Str("") THEN nft.name ELSE Str("N?A"))
            /\ result.symbol =
                   (IF nft.symbol # Str("") THEN nft.symbol ELSE Str("N/A"))
            /\ result.imageURL = Undefined

C4_Witness ==
    /\ Returned /\ IsRecord /\ MetaOk
    /\ resp["axiosJson"] = Rejected
    /\ result.name = Str("OnName")
    /\ result.symbol = Str("ONS")

\* C5: in every returned record the market cap is set exactly when the
\* price is set.
C5_MarketCapIffPrice ==
    (Returned /\ IsRecord) =>
        (result.marketcCap # Undefined <=> result.price # Undefined)

C5_Witness ==
    /\ Returned /\ IsRecord
    /\ result.price = Num(<<2, 5>>, -1)
    /\ result.marketcCap # Undefined

C5_WitnessUnset ==
    /\ Returned /\ IsRecord
    /\ resp["axiosPrice"].st = "fulfilled"
    /\ result.price = Undefined
    /\ result.marketcCap = Undefined

\* price times the decimal total supply of the mint lookup, exact
ExactMarketCap ==
    LET m == resp["getMint"].data
        p == multipliedBy(convertToDecimal(m.supply, m.decimals), result.price)
    IN  Num(p.c, p.x)

\* C6: whenever the market cap is set in the record (the price being a
\* number), it equals the price multiplied by the decimal total supply of
\* the mint lookup.
C6_MarketCapIsProduct ==
    (Returned /\ IsRecord /\ result.price.t = "number"
        /\ result.marketcCap # Undefined) =>
        result.marketcCap = ExactMarketCap

\* the example of C6: price 2.5, decimal supply 1,000,000, market cap
\* 2,500,000
C6_ExampleReached ==
    /\ Returned /\ IsRecord
    /\ result.price = Num(<<2, 5>>, -1)
    /\ result.totalSupply = Text(<<"1", ",", "0", "0", "0", ",", "0", "0", "0">>)
    /\ result.marketcCap = Num(<<2, 5>>, 5)

\* C7: a non-empty on-chain name or symbol is carried into the record
\* whatever the off-chain document holds; an off-chain name or symbol is
\* in the record only if the on-chain one was empty and the off-chain
\* fetch succeeded with that field.
OnChain(field) == IF MetaOk THEN resp["findByMint"].data[field] ELSE Undefined
OffChain(field) ==
    IF resp["axiosJson"].st = "fulfilled"
    THEN Opt(resp["axiosJson"].data, field) ELSE Undefined

C7_OnChainWins ==
    (Returned /\ IsRecord) =>
        /\ Truthy(OnChain("name")) => result.name = OnChain("name")
        /\ Truthy(OnChain("symbol")) => result.symbol = OnChain("symbol")
        /\ result.name = Str("OffName") =>
              (MetaOk /\ OnChain("name") = Str("")
               /\ OffChain("name") = Str("OffName"))
        /\ result.symbol = Str("OFF") =>
              (MetaOk /\ OnChain("symbol") = Str("")
               /\ OffChain("symbol") = Str("OFF"))

C7_Witness ==
    /\ Returned /\ IsRecord
    /\ OnChain("name") = Str("OnName") /\ OffChain("name") = Str("OffName")
    /\ OnChain("symbol") = Str("") /\ OffChain("symbol") = Str("OFF")
    /\ result.name = Str("OnName") /\ result.symbol = Str("OFF")

\* C8: an address that fails the format validation never triggers a
\* network call, from main or from getTokenDetails called directly.
C8_NoCallForMalformed ==
    Malformed =>
        /\ calls = <<>>
        /\ \A c \in CallNames : resp[c] = NotCalled

C8_Witness ==
    /\ entry = "direct" /\ address = "not-base58!" /\ Returned /\ calls = <<>>

C8_WitnessMain ==
    /\ entry = "main" /\ address = "not-base58!" /\ pc = "exited"
    /\ calls = <<>>

\* C9 as stated: getTokenDetails, given a malformed address, signals an
\* outcome that differs from the one of a failed mint lookup (null).
C9_Original ==
    (Returned /\ Malformed) => result # Null

\* C9 amended: getTokenDetails, given a malformed address, returns null at
\* once, without a network call: the same outcome as a failed mint lookup.
\* Only main tells the malformed address apart, by exit code 1.
C9_MalformedReturnsNull ==
    /\ (Returned /\ Malformed) => (result = Null /\ calls = <<>>)
    /\ (entry = "main" /\ Malformed /\ pc # "main") =>
          (pc = "exited" /\ exitCode = Num(<<1>>, 0) /\ result = Pending)

C9_Witness ==
    /\ entry = "direct" /\ address = "not-base58!" /\ Returned
    /\ result = Null

\* C10: in a returned record each of liquidityUsd, holders, volume24h is
\* set exactly when the overview call succeeded and its response carried
\* the field, with the value carried; no market field is zero unless its
\* source said so.
Overview(field) ==
    IF resp["axiosOverview"].st = "fulfilled"
    THEN Opt(resp["axiosOverview"].data, field) ELSE Undefined

C10_OverviewFieldsAsCarried ==
    (Returned /\ IsRecord) =>
        /\ result.liquidityUsd = Overview("liquidity")
        /\ result.holders = Overview("holders")
        /\ result.volume24h = Overview("volume24h")
        /\ result.price # Zero
        /\ result.marketcCap = Zero =>
              (result.price # Undefined /\ result.totalSupplyRaw = BigInt(<<0>>))

C10_Witness ==
    /\ Returned /\ IsRecord
    /\ resp["axiosPrice"] = Rejected
    /\ result.liquidityUsd = Num(<<5>>, 0)
    /\ result.holders = Undefined
    /\ result.volume24h = Num(<<9>>, 0)
    /\ result.price = Undefined /\ result.marketcCap = Undefined


\* neither the on-chain record nor the off-chain document yields the field
Unresolved(field) == ~Truthy(OnChain(field)) /\ ~Truthy(OffChain(field))

\* C11: when neither layer yields a name, respectively a symbol, the
\* record carries the "unknown" marker there, one and the same marker for
\* both fields: with both unresolved, name and symbol are equal.
C11_OneMarker ==
    (Returned /\ IsRecord /\ Unresolved("name") /\ Unresolved("symbol")) =>
        result.name = result.symbol

(***************************************************************************)
(* The reference for raw / 10^d, on the digits of raw: the integer part is *)
(* raw without its last d digits, the fraction its last d digits, filled   *)
(* with zeros on the left, without trailing zeros.                         *)
(***************************************************************************)
RECURSIVE DropTrailingZeros(_)
DropTrailingZeros(f) ==
    IF f # <<>> /\ Last(f) = 0 THEN DropTrailingZeros(Front(f)) ELSE f

RefInteger(c, d) == IF Len(c) > d THEN SubSeq(c, 1, Len(c) - d) ELSE <<0>>

RefFraction(c, d) ==
    DropTrailingZeros(IF Len(c) >= d THEN SubSeq(c, Len(c) - d + 1, Len(c))
                      ELSE Zeros(d - Len(c)) \o c)

NotComma(ch) == ch # ","

\* raw / 10^d written plainly
RefPlain(c, d) ==
    [i \in 1..Len(RefInteger(c, d)) |-> DigitChar(RefInteger(c, d)[i])]
    \o (IF RefFraction(c, d) = <<>> THEN <<>>
        ELSE <<".">> \o [i \in 1..Len(RefFraction(c, d)) |->
                            DigitChar(RefFraction(c, d)[i])])

\* chars is plain with "," before every group of three integer digits
IsGrouped(chars, c, d) ==
    LET n == Len(RefInteger(c, d))
        L == n + (n - 1) \div 3
    IN  /\ SelectSeq(chars, NotComma) = RefPlain(c, d)
        /\ Len(chars) >= L
        /\ \A p \in 1..Len(chars) :
              chars[p] = "," <=> (p <= L /\ (L - p + 1) % 4 = 0)

\* C13: the formatted total supply of the record is the decimal total
\* supply, totalSupplyRaw / 10^decimals, written with thousands grouping.
C13_FormattedSupplyGrouped ==
    (Returned /\ IsRecord) =>
        IsGrouped(result.totalSupply.chars, resp["getMint"].data.supply.c,
                  resp["getMint"].data.decimals)

\* the example of C13: {decimals: 6, totalSupplyRaw: 1000000000000} gives
\* "1,000,000"
C13_Witness ==
    /\ Returned /\ IsRecord
    /\ result.decimals = 6
    /\ result.totalSupplyRaw = BigInt(<<1>> \o Zeros(12))
    /\ result.totalSupply = Text(<<"1", ",", "0", "0", "0", ",", "0", "0", "0">>)

C13_WitnessFraction ==
    /\ Returned /\ IsRecord
    /\ result.decimals = 9
    /\ result.totalSupply =
          Text(<<"1", "2", "3", ",", "4", "5", "6", ",", "7", "8", "9", ".",
                 "0", "1", "2", "3", "4", "5", "6", "7", "8">>)

Issued(call) == \E i \in 1..Len(calls) : calls[i] = call
Attempts(call) == Cardinality({i \in 1..Len(calls) : calls[i] = call})
Answered(call) == resp[call].st \in {"rejected", "fulfilled"}

\* what the price response alone determines
PriceDetermined ==
    IF resp["axiosPrice"].st = "fulfilled"
          /\ Truthy(Opt(resp["axiosPrice"].data, "value"))
    THEN Opt(resp["axiosPrice"].data, "value") ELSE Undefined

\* C15: the overview call is issued whether the price call succeeded or
\* failed; a price failure leaves liquidityUsd, holders, volume24h as the
\* overview call determined them; an overview failure leaves price and
\* marketCap as the price call determined them.
C15_PriceOverviewIndependent ==
    /\ Answered("axiosPrice") => Issued("axiosOverview")
    /\ (Returned /\ IsRecord /\ resp["axiosPrice"] = Rejected) =>
          /\ Answered("axiosOverview")
          /\ result.liquidityUsd = Overview("liquidity")
          /\ result.holders = Overview("holders")
          /\ result.volume24h = Overview("volume24h")
    /\ (Returned /\ IsRecord /\ resp["axiosOverview"] = Rejected) =>
          /\ result.price = PriceDetermined
          /\ result.marketcCap # Undefined <=> PriceDetermined # Undefined

C15_Witness ==
    /\ Returned /\ IsRecord
    /\ resp["axiosPrice"] = Rejected
    /\ resp["axiosOverview"].st = "fulfilled"
    /\ result.liquidityUsd = Num(<<5>>, 0)
    /\ result.holders = Num(<<7>>, 0)

C15_WitnessOverviewFails ==
    /\ Returned /\ IsRecord
    /\ resp["axiosOverview"] = Rejected
    /\ result.price = Num(<<2, 5>>, -1)
    /\ result.marketcCap # Undefined

\* the metadata stage is over: the lookup was answered, and so was the
\* off-chain fetch if it was issued
MetadataStageOver ==
    /\ Answered("findByMint")
    /\ Issued("axiosJson") => Answered("axiosJson")

\* C16: the mint lookup has completed successfully before any market cap
\* is computed; the record exists only after the metadata stage, the price
\* call and the overview call have each completed; and it is built once:
\* what getTokenDetails returned never changes afterwards.
C16_Ordering ==
    /\ [](marketCap # Undefined => MintOk)
    /\ []((result # Pending /\ IsRecord) =>
            (MintOk /\ MetadataStageOver /\ Answered("axiosPrice")
             /\ Answered("axiosOverview")))
    /\ [][result # Pending => result' = result]_vars

C16_Witness ==
    /\ Returned /\ IsRecord
    /\ result.marketcCap = Num(<<2, 5>>, 5)
    /\ resp["axiosJson"].st = "fulfilled"
    /\ resp["axiosOverview"].st = "fulfilled"

\* C17: the off-chain fetch is issued only if the on-chain lookup
\* succeeded and gave a non-empty pointer URI; the record has an image only
\* if, besides, the off-chain fetch succeeded.
C17_JsonOnlyWithUri ==
    /\ Issued("axiosJson") => (MetaOk /\ Truthy(OnChain("uri")))
    /\ (Returned /\ IsRecord /\ result.imageURL # Undefined) =>
          /\ MetaOk /\ Truthy(OnChain("uri"))
          /\ resp["axiosJson"].st = "fulfilled"
          /\ result.imageURL = OffChain("image")

C17_Witness ==
    /\ Returned /\ IsRecord
    /\ result.imageURL = Str("https://img")
    /\ OnChain("uri") = Str("https://meta")

C17_WitnessNoUri ==
    /\ Returned /\ IsRecord /\ MetaOk
    /\ OnChain("uri") = Str("")
    /\ ~Issued("axiosJson")
    /\ result.imageURL = Undefined

\* C18: within one request each external call is attempted at most once.
C18_NoRetry == \A c \in CallNames : Attempts(c) <= 1

C18_Witness ==
    /\ Returned /\ IsRecord
    /\ resp["axiosJson"] = Rejected
    /\ resp["axiosPrice"] = Rejected
    /\ resp["axiosOverview"] = Rejected
    /\ calls = <<"getMint", "findByMint", "axiosJson", "axiosPrice",
                 "axiosOverview">>

\* the price response has no numeric value at data.value
NoNumericPrice ==
    /\ resp["axiosPrice"].st = "fulfilled"
    /\ Opt(resp["axiosPrice"].data, "value").t # "number"

\* C19: if the price response lacks the nested numeric field or carries a
\* non-numeric value there, price and marketCap are unset in the record and
\* the overview call was made.
C19_MalformedPriceUnset ==
    (Returned /\ IsRecord /\ NoNumericPrice) =>
        /\ result.price = Undefined
        /\ result.marketcCap = Undefined
        /\ Issued("axiosOverview")


\* the request is over: getTokenDetails has returned, or main has exited
Completed == pc \in {"returned", "exited"}

\* C14: every request eventually completes, whatever the external calls do:
\* as long as it has not completed, a step of it can be taken (a call that
\* is not answered is given up as a failure of its stage).
C14_NeverBlocked == Completed \/ ENABLED Next


\* C12: for every non-negative integer raw amount and every count of
\* decimal places, convertToDecimal(raw, decimals) is raw / 10^decimals
\* exactly: its integer digits and its fraction digits are those of the
\* reference.
C12_ConvertExact ==
    converted # Undefined =>
        /\ ~converted.nan
        /\ IntegerPart(converted) = RefInteger(amount.c, places)
        /\ FractionPart(converted) = RefFraction(amount.c, places)

\* the example of C12: 123456789012345678 with 9 places is
\* 123456789.012345678
C12_Witness ==
    /\ amount = BigInt(<<1, 2, 3, 4, 5, 6, 7, 8, 9, 0, 1, 2, 3, 4, 5, 6, 7, 8>>)
    /\ places = 9
    /\ converted # Undefined
    /\ toFormat(converted) =
          <<"1", "2", "3", ",", "4", "5", "6", ",", "7", "8", "9", ".",
            "0", "1", "2", "3", "4", "5", "6", "7", "8">>


\* the records an invocation on its own returns for the address and the
\* answers r of the services it called (a set: toNumber may round)
AloneReturns(addr, r) ==
    IF addr \notin WellFormedAddresses \/ r["getMint"].st # "fulfilled"
    THEN {Null}
    ELSE
    LET m == r["getMint"].data
        onChain == r["findByMint"].st = "fulfilled"
        nft == r["findByMint"].data
        docRead == /\ r["axiosJson"].st = "fulfilled"
                   /\ ~FieldThrows(r["axiosJson"].data)
        doc(field) == IF docRead THEN Opt(r["axiosJson"].data, field)
                      ELSE Undefined
        first(a, b) == IF Truthy(a) THEN a ELSE b
        name == first(IF onChain THEN nft.name ELSE Undefined, doc("name"))
        symbol == first(IF onChain THEN nft.symbol ELSE Undefined,
                        doc("symbol"))
        quoted == r["axiosPrice"].st = "fulfilled"
        p == IF quoted /\ Truthy(Opt(r["axiosPrice"].data, "value"))
             THEN Opt(r["axiosPrice"].data, "value")
             ELSE Undefined
        caps == IF p = Undefined THEN {Undefined}
                ELSE toNumber(multipliedBy(
                         convertToDecimal(m.supply, m.decimals), p))
        seen(field) == IF r["axiosOverview"].st = "fulfilled"
                       THEN Opt(r["axiosOverview"].data, field)
                       ELSE Undefined
    IN  {[t |-> "TokenDetails",
          address |-> addr,
          name |-> IF Truthy(name) THEN name ELSE Str("N?A"),
          symbol |-> IF Truthy(symbol) THEN symbol ELSE Str("N/A"),
          imageURL |-> doc("image"),
          decimals |-> m.decimals,
          totalSupply |->
              Text(toFormat(convertToDecimal(m.supply, m.decimals))),
          totalSupplyRaw |-> m.supply,
          mintAuthority |-> m.mintAuthority,
          freezeAuthority |-> m.freezeAuthority,
          price |-> p,
          marketcCap |-> cap,
          liquidityUsd |-> seen("liquidity"),
          holders |-> seen("holders"),
          volume24h |-> seen("volume24h")] : cap \in caps}

\* what an invocation returns on its own is what AloneReturns says
AloneAsExpected ==
    (Alone /\ Returned) => result \in AloneReturns(address, resp)

\* C20: two invocations of getTokenDetails for different addresses run
\* interleaved; each returns the record it would return on its own for its
\* address and the answers to its own calls, so no field of one reaches the
\* other.
C20_RequestsIndependent ==
    ~Alone =>
        /\ Returned => result \in AloneReturns(address, resp)
        /\ parked.pc = "returned" =>
               parked.result \in AloneReturns(parked.address, parked.resp)

\* both have returned, one with on-chain and off-chain data, a price and the
\* overview, the other with none of them
C20_Witness ==
    /\ ~Alone
    /\ Returned /\ parked.pc = "returned"
    /\ IsRecord /\ parked.result # Null
    /\ address # parked.address
    /\ result.name = Str("OnName") /\ parked.result.name = Str("N?A")
    /\ result.symbol = Str("OFF") /\ parked.result.symbol = Str("N/A")
    /\ result.imageURL # Undefined /\ parked.result.imageURL = Undefined
    /\ result.price # Undefined /\ parked.result.price = Undefined
    /\ result.holders # Undefined /\ parked.result.holders = Undefined

\* both are in flight: the first waits for its price while the second has
\* its own metadata answers already
C20_WitnessInFlight ==
    /\ ~Alone
    /\ pc = "axiosPrice" /\ parked.pc = "axiosOverview"
    /\ tokenName = Str("OnName") /\ parked.tokenName = Str("")
    /\ Len(calls) > 0 /\ Len(parked.calls) > 0

====
